---- MODULE Spec2Model ----
(***************************************************************************)
(* Model of metadata/moa/scripts/nbconverted/0.merge-repurposing-          *)
(* compounds.py: a linear script that loads the drug and sample tables,    *)
(* asserts that their pert_iname sets agree, inner-joins them, moves       *)
(* broad_id to the front, derives InChIKey14, writes repurposing_info.tsv, *)
(* splits moa and target on "|" into a long table and writes               *)
(* repurposing_info_long.tsv.                                              *)
(*                                                                         *)
(* A string is a tuple of one-character strings; a data frame is a record  *)
(* [cols, rows] with cols the column order and rows a sequence of          *)
(* functions from column name to cell.  The pandas index of the row at     *)
(* position p of a frame with a fresh RangeIndex is p - 1.                 *)
(***************************************************************************)
EXTENDS Integers, Sequences, FiniteSets, TLC

VARIABLES pc, drug_df, sample_df, inchi_to_key, combined_df, wide_file,
          moa_split_df, target_split_df, long_combined_df, long_file

vars == <<pc, drug_df, sample_df, inchi_to_key, combined_df, wide_file,
          moa_split_df, target_split_df, long_combined_df, long_file>>

(* ---------------------------- bounds ----------------------------------- *)
MaxDrugRows == 2
MaxSampleRows == 2

(* ---------------------------- cells ------------------------------------ *)
\* numpy.nan, the missing cell; None, the Python null.  Neither is a string:
\* every element of a string is a single character.
NaN == <<"NaN">>
None == <<"None">>
\* a file not written, a name not bound yet: no columns at all
NoFile == [cols |-> <<>>, rows |-> <<>>]
NoFrame == [cols |-> <<>>, rows |-> <<>>]

IsStr(x) == x # NaN /\ x # None

KeyLen == 14
replace_with_na ==
    <<"r","e","p","l","a","c","e","_","w","i","t","h","_","n","a">>
InChIPrefix == <<"I","n","C","h","I">>
split_col_index == "repurposing_info_index"

(* ---------------------------- strings ---------------------------------- *)
Min(a, b) == IF a < b THEN a ELSE b

\* x.startswith(p)
StartsWith(x, p) == Len(x) >= Len(p) /\ SubSeq(x, 1, Len(p)) = p

\* str(x): the identity on a string, "None" on None, "nan" on nan.
Str(x) == IF x = None THEN <<"N","o","n","e">>
          ELSE IF x = NaN THEN <<"n","a","n">>
          ELSE x

\* s[:14]
Take14(s) == SubSeq(s, 1, Min(KeyLen, Len(s)))

PipePositions(s) == {i \in 1..Len(s) : s[i] = "|"}
FirstPipe(s) == CHOOSE i \in PipePositions(s) : \A j \in PipePositions(s) : i <= j

\* fault: a split that drops empty segments, as s.split() without a separator
RECURSIVE SplitPipe_NoEmpty(_)
SplitPipe_NoEmpty(s) ==
    IF PipePositions(s) = {} THEN (IF s = <<>> THEN <<>> ELSE <<s>>)
    ELSE LET i == FirstPipe(s)
             head == SubSeq(s, 1, i - 1)
         IN (IF head = <<>> THEN <<>> ELSE <<head>>)
            \o SplitPipe_NoEmpty(SubSeq(s, i + 1, Len(s)))

\* s.split("|"): the segments between pipes, empty segments kept.
RECURSIVE SplitPipe(_)
SplitPipe(s) ==
    IF PipePositions(s) = {} THEN <<s>>
    ELSE LET i == FirstPipe(s)
         IN <<SubSeq(s, 1, i - 1)>> \o SplitPipe(SubSeq(s, i + 1, Len(s)))

(* ---------------------------- inputs ----------------------------------- *)
DrugColumns == <<"pert_iname", "moa", "target">>
SampleColumns == <<"broad_id", "pert_iname", "InChIKey">>
\* the column orders a sample file is loaded with
SampleColumnOrders == {SampleColumns, <<"pert_iname", "InChIKey", "broad_id">>}

NameX == <<"x">>
NameY == <<"y">>

DrugRow(n, m, t) == [pert_iname |-> n, moa |-> m, target |-> t]
SampleRow(b, n, k) == [broad_id |-> b, pert_iname |-> n, InChIKey |-> k]

DrugFixtures ==
    { DrugRow(NameX, NaN, NaN),
      DrugRow(NameX, <<"a","|","b">>, <<"t">>),
      DrugRow(NameY, <<"a","|","|","b">>, <<"t","|","u">>),
      DrugRow(NameY, replace_with_na, <<"t","|">> \o replace_with_na),
      DrugRow(NameX, <<"a">>, NaN) }

Key27 == <<"B","S","Y","N","R","Y","M","U","T","X","B","X","S","Q","-",
           "U","H","F","F","F","A","O","Y","S","A","-","N">>
Key27Methane == <<"V","N","W","K","T","O","K","E","T","H","G","B","Q","D","-",
                  "U","H","F","F","F","A","O","Y","S","A","-","N">>
InChIMethane == <<"I","n","C","h","I","=","1","S","/","C","H","4","/",
                  "h","1","H","4">>
ShortKey == <<"A","B","C">>

SampleFixtures ==
    { SampleRow(<<"B","1">>, NameX, Key27),
      SampleRow(<<"B","2">>, NameY, ShortKey),
      SampleRow(<<"B","3">>, NameX, InChIMethane),
      SampleRow(<<"B","4">>, NameY, NaN) }

\* What the chemistry library may return for an InChI string: the key, or
\* None when it cannot parse the string.
InChIInputs == {InChIMethane}
InChIOutcomes == {Key27Methane, None}

NonEmptySeqs(S, n) == UNION {[1..k -> S] : k \in 1..n}

Range(s) == {s[i] : i \in 1..Len(s)}

RECURSIVE Concat(_)
Concat(ss) == IF ss = <<>> THEN <<>> ELSE Head(ss) \o Concat(Tail(ss))

\* pd.read_csv: a frame with the file's columns and rows.
ReadCsv(cols, rows) == [cols |-> cols, rows |-> rows]

(* ---------------------------- key check -------------------------------- *)
\* set(df.pert_iname)
NamesOf(df) == {r.pert_iname : r \in Range(df.rows)}

\* fault: a difference that is never looked at
KeyDifference_Ignored(a, b) == {}

\* set(a.pert_iname.values).difference(set(b.pert_iname))
KeyDifference(a, b) == NamesOf(a) \ NamesOf(b)

(* ---------------------------- inner join ------------------------------- *)
Without(cols, c) ==
    Concat([i \in 1..Len(cols) |-> IF cols[i] = c THEN <<>> ELSE <<cols[i]>>])

\* the distinct keys of the rows, by first appearance
RECURSIVE KeysInOrder(_)
KeysInOrder(rows) ==
    IF rows = <<>> THEN <<>>
    ELSE LET init == KeysInOrder(SubSeq(rows, 1, Len(rows) - 1))
             k == rows[Len(rows)].pert_iname
         IN IF k \in Range(init) THEN init ELSE Append(init, k)

\* The row order of an inner join with a repeated left key depends on the
\* pandas release: the order of the left rows, or the rows grouped by key in
\* the order the keys first appear on the left.
JoinOrders == {"left", "grouped"}

\* the pairs (left position, right position) of an inner join, in row order
JoinPairs(left, right, order) ==
    LET matches(i) == Concat([j \in 1..Len(right.rows) |->
                         IF left.rows[i].pert_iname = right.rows[j].pert_iname
                         THEN <<(<<i, j>>)>> ELSE <<>>])
        keys == KeysInOrder(left.rows)
    IN IF order = "left"
       THEN Concat([i \in 1..Len(left.rows) |-> matches(i)])
       ELSE Concat([n \in 1..Len(keys) |->
               Concat([i \in 1..Len(left.rows) |->
                  IF left.rows[i].pert_iname = keys[n] THEN matches(i) ELSE <<>>])])

\* fault: a join that keeps only the first matching right row
MergeInner_FirstMatch(left, right, order) ==
    [cols |-> left.cols \o Without(right.cols, "pert_iname"),
     rows |-> Concat([i \in 1..Len(left.rows) |->
                LET hits == {j \in 1..Len(right.rows) :
                               left.rows[i].pert_iname = right.rows[j].pert_iname}
                IN IF hits = {} THEN <<>>
                   ELSE <<left.rows[i] @@
                          right.rows[CHOOSE j \in hits : \A k \in hits : j <= k]>>])]

\* left.merge(right, on="pert_iname", how="inner").reset_index(drop=True):
\* the left columns, then the right columns but the key; one row per
\* matching pair.
MergeInner(left, right, order) ==
    LET pairs == JoinPairs(left, right, order)
    IN [cols |-> left.cols \o Without(right.cols, "pert_iname"),
        rows |-> [n \in 1..Len(pairs) |->
                    left.rows[pairs[n][1]] @@ right.rows[pairs[n][2]]]]

(* ---------------------------- reorder, InChIKey14 ---------------------- *)
IndexOf(cols, c) == CHOOSE i \in 1..Len(cols) : cols[i] = c /\ \A j \in 1..(i-1) : cols[j] # c

\* fault: broad_id left where the join put it
ColOrder_Unmoved(cols) == cols

\* col_order.insert(0, col_order.pop(col_order.index("broad_id")))
ColOrder(cols) ==
    LET i == IndexOf(cols, "broad_id")
    IN <<cols[i]>> \o SubSeq(cols, 1, i - 1) \o SubSeq(cols, i + 1, Len(cols))

\* fault: the [:14] slice left out
InChIKey14Of_Untruncated(x) ==
    Str(IF StartsWith(x, InChIPrefix) THEN inchi_to_key[x] ELSE x)

\* fault: the conversion branch never taken
InChIKey14Of_AlwaysKept(x) == Take14(Str(x))

\* (InchiToInchiKey(x) if x.startswith("InChI") else x), then str(x)[:14]
InChIKey14Of(x) ==
    Take14(Str(IF StartsWith(x, InChIPrefix) THEN inchi_to_key[x] ELSE x))

\* df.loc[:, col_order].assign(InChIKey14=...)
Assign14(df) ==
    [cols |-> ColOrder(df.cols) \o <<"InChIKey14">>,
     rows |-> [i \in 1..Len(df.rows) |->
                 df.rows[i] @@ ("InChIKey14" :> InChIKey14Of(df.rows[i].InChIKey))]]

(* ---------------------------- placeholder ------------------------------ *)
\* Series.fillna("replace_with_na")
FillNa(v) == IF v = NaN THEN replace_with_na ELSE v

FillFrame(df) ==
    [df EXCEPT !.rows = [i \in 1..Len(df.rows) |->
        [df.rows[i] EXCEPT !.moa = FillNa(@), !.target = FillNa(@)]]]

\* fault: the placeholder substituted before the wide table is written
WideContents_AfterFill == FillFrame(combined_df)

\* what combined_df.to_csv writes at line 85
WideContents == combined_df

(* ---------------------------- split and stack -------------------------- *)
MaxOf(S) == CHOOSE n \in S : \A m \in S : m <= n

\* pd.DataFrame(lists, index=df.index): one column per position of the
\* widest list, shorter lists padded with None.
ListFrame(lists) ==
    LET width == MaxOf({Len(lists[i]) : i \in 1..Len(lists)} \cup {0})
    IN [i \in 1..Len(lists) |->
          [j \in 1..width |-> IF j <= Len(lists[i]) THEN lists[i][j] ELSE None]]

\* fault: stack(dropna=False), the padding kept
Stack_KeepNull(frame, name) ==
    Concat([i \in 1..Len(frame) |->
       Concat([j \in 1..Len(frame[i]) |->
          <<(split_col_index :> (i - 1)) @@ ("_" :> (j - 1)) @@ (name :> frame[i][j])>>])])

\* .stack().reset_index() with the columns renamed [split_col_index, "_",
\* name]: one row per non-null cell, by row then by position.
Stack(frame, name) ==
    Concat([i \in 1..Len(frame) |->
       Concat([j \in 1..Len(frame[i]) |->
          IF IsStr(frame[i][j])
          THEN <<(split_col_index :> (i - 1)) @@ ("_" :> (j - 1)) @@ (name :> frame[i][j])>>
          ELSE <<>>])])

\* pd.DataFrame(df[col].str.split("|").tolist(), index=df.index)
\*   .stack().reset_index()
SplitFrame(df, col, name) ==
    [cols |-> <<split_col_index, "_", name>>,
     rows |-> Stack(ListFrame([i \in 1..Len(df.rows) |-> SplitPipe(df.rows[i][col])]),
                    name)]

(* ---------------------------- long table ------------------------------- *)
\* df.merge(split.loc[:, [split_col_index, name]], left_index=True,
\*          right_on=split_col_index, how="left")
MergeOnIndex(df, split, name) ==
    [cols |-> df.cols \o <<split_col_index, name>>,
     rows |-> Concat([i \in 1..Len(df.rows) |->
        LET hits == Concat([k \in 1..Len(split.rows) |->
                       IF split.rows[k][split_col_index] = i - 1
                       THEN <<df.rows[i] @@ (split_col_index :> (i - 1))
                                          @@ (name :> split.rows[k][name])>>
                       ELSE <<>>])
        IN IF hits = <<>>
           THEN <<df.rows[i] @@ (split_col_index :> (i - 1)) @@ (name :> NaN)>>
           ELSE hits])]

\* fault: the second merge without its key, a cross join
MergeOnColumn_Cross(df, split, name) ==
    [cols |-> df.cols \o <<name>>,
     rows |-> Concat([i \in 1..Len(df.rows) |->
                [k \in 1..Len(split.rows) |-> df.rows[i] @@ (name :> split.rows[k][name])]])]

\* df.merge(split.loc[:, [split_col_index, name]], on=split_col_index,
\*          how="left")
MergeOnColumn(df, split, name) ==
    [cols |-> df.cols \o <<name>>,
     rows |-> Concat([i \in 1..Len(df.rows) |->
        LET hits == Concat([k \in 1..Len(split.rows) |->
                       IF split.rows[k][split_col_index] = df.rows[i][split_col_index]
                       THEN <<df.rows[i] @@ (name :> split.rows[k][name])>>
                       ELSE <<>>])
        IN IF hits = <<>> THEN <<df.rows[i] @@ (name :> NaN)>> ELSE hits])]

\* df.loc[df[col] == "replace_with_na", col] = np.nan
PutBack(v) == IF v = replace_with_na THEN NaN ELSE v

RestoredColumns == <<"moa", "moa_unique", "target", "target_unique">>

Restore(df) ==
    [df EXCEPT !.rows = [i \in 1..Len(df.rows) |->
        [c \in DOMAIN df.rows[i] |->
            IF c \in Range(RestoredColumns) THEN PutBack(df.rows[i][c])
            ELSE df.rows[i][c]]]]

(* ---------------------------- the script ------------------------------- *)
Init ==
    /\ pc = "assert1"
    /\ drug_df \in {ReadCsv(DrugColumns, r) : r \in NonEmptySeqs(DrugFixtures, MaxDrugRows)}
    /\ sample_df \in {ReadCsv(c, r) : c \in SampleColumnOrders,
                                      r \in NonEmptySeqs(SampleFixtures, MaxSampleRows)}
    /\ inchi_to_key \in [InChIInputs -> InChIOutcomes]
    /\ combined_df = NoFrame
    /\ wide_file = NoFile
    /\ moa_split_df = NoFrame
    /\ target_split_df = NoFrame
    /\ long_combined_df = NoFrame
    /\ long_file = NoFile

\* line 61
Assert1 ==
    /\ pc = "assert1"
    /\ pc' = IF KeyDifference(drug_df, sample_df) = {} THEN "assert2" ELSE "AssertionError"
    /\ UNCHANGED <<drug_df, sample_df, inchi_to_key, combined_df, wide_file,
                   moa_split_df, target_split_df, long_combined_df, long_file>>

\* line 62
Assert2 ==
    /\ pc = "assert2"
    /\ pc' = IF KeyDifference(sample_df, drug_df) = {} THEN "merge" ELSE "AssertionError"
    /\ UNCHANGED <<drug_df, sample_df, inchi_to_key, combined_df, wide_file,
                   moa_split_df, target_split_df, long_combined_df, long_file>>

\* lines 70-72
Merge ==
    /\ pc = "merge"
    /\ \E order \in JoinOrders : combined_df' = MergeInner(drug_df, sample_df, order)
    /\ pc' = "reorder"
    /\ UNCHANGED <<drug_df, sample_df, inchi_to_key, wide_file,
                   moa_split_df, target_split_df, long_combined_df, long_file>>

\* lines 75-81; x.startswith raises AttributeError on a missing InChIKey
Reorder ==
    /\ pc = "reorder"
    /\ IF \A r \in Range(combined_df.rows) : IsStr(r.InChIKey)
       THEN combined_df' = Assign14(combined_df) /\ pc' = "write_wide"
       ELSE combined_df' = combined_df /\ pc' = "AttributeError"
    /\ UNCHANGED <<drug_df, sample_df, inchi_to_key, wide_file,
                   moa_split_df, target_split_df, long_combined_df, long_file>>

\* line 85
WriteWide ==
    /\ pc = "write_wide"
    /\ wide_file' = WideContents
    /\ pc' = "fillna"
    /\ UNCHANGED <<drug_df, sample_df, inchi_to_key, combined_df,
                   moa_split_df, target_split_df, long_combined_df, long_file>>

\* lines 104-105
FillPlaceholder ==
    /\ pc = "fillna"
    /\ combined_df' = FillFrame(combined_df)
    /\ pc' = "split_moa"
    /\ UNCHANGED <<drug_df, sample_df, inchi_to_key, wide_file,
                   moa_split_df, target_split_df, long_combined_df, long_file>>

\* lines 118-123
SplitMoa ==
    /\ pc = "split_moa"
    /\ moa_split_df' = SplitFrame(combined_df, "moa", "moa_unique")
    /\ pc' = "split_target"
    /\ UNCHANGED <<drug_df, sample_df, inchi_to_key, combined_df, wide_file,
                   target_split_df, long_combined_df, long_file>>

\* lines 132-138
SplitTarget ==
    /\ pc = "split_target"
    /\ target_split_df' = SplitFrame(combined_df, "target", "target_unique")
    /\ pc' = "merge_long"
    /\ UNCHANGED <<drug_df, sample_df, inchi_to_key, combined_df, wide_file,
                   moa_split_df, long_combined_df, long_file>>

\* lines 147-160
MergeLong ==
    /\ pc = "merge_long"
    /\ long_combined_df' =
          MergeOnColumn(MergeOnIndex(combined_df, moa_split_df, "moa_unique"),
                        target_split_df, "target_unique")
    /\ pc' = "restore"
    /\ UNCHANGED <<drug_df, sample_df, inchi_to_key, combined_df, wide_file,
                   moa_split_df, target_split_df, long_file>>

\* lines 163-170
PutBackMissing ==
    /\ pc = "restore"
    /\ long_combined_df' = Restore(long_combined_df)
    /\ pc' = "write_long"
    /\ UNCHANGED <<drug_df, sample_df, inchi_to_key, combined_df, wide_file,
                   moa_split_df, target_split_df, long_file>>

\* line 173
WriteLong ==
    /\ pc = "write_long"
    /\ long_file' = long_combined_df
    /\ pc' = "done"
    /\ UNCHANGED <<drug_df, sample_df, inchi_to_key, combined_df, wide_file,
                   moa_split_df, target_split_df, long_combined_df>>

Next ==
    \/ Assert1
    \/ Assert2
    \/ Merge
    \/ Reorder
    \/ WriteWide
    \/ FillPlaceholder
    \/ SplitMoa
    \/ SplitTarget
    \/ MergeLong
    \/ PutBackMissing
    \/ WriteLong

Spec == Init /\ [][Next]_vars

(* ======================= properties of the script ====================== *)
Stopped == {"AssertionError"}
BeforeMerge == {"assert1", "assert2"}
WithInChIKey14 == {"write_wide", "fillna", "split_moa", "split_target",
                   "merge_long", "restore", "write_long", "done"}
PlaceholderIn == {"split_moa", "split_target", "merge_long", "restore",
                  "write_long", "done"}
SplitsDone == {"merge_long", "restore", "write_long", "done"}
LongBuilt == {"restore", "write_long", "done"}
LongRestored == {"write_long", "done"}

(* ---- C1 ---- *)
\* C1: when the pert_iname sets of the two tables differ, the run never gets
\* past the assertions and neither output file is written; the run stops with
\* an AssertionError only when the sets differ.
C1_KeyCheck ==
    /\ NamesOf(drug_df) # NamesOf(sample_df) =>
          /\ pc \in BeforeMerge \cup Stopped
          /\ combined_df = NoFrame
          /\ wide_file = NoFile
          /\ long_file = NoFile
    /\ pc \in Stopped => NamesOf(drug_df) # NamesOf(sample_df)
    /\ (combined_df # NoFrame \/ wide_file # NoFile \/ long_file # NoFile) =>
          NamesOf(drug_df) = NamesOf(sample_df)

\* the run stopped at the second assertion: a sample name the drug table lacks
C1_Witness ==
    /\ pc = "AssertionError"
    /\ NamesOf(drug_df) \ NamesOf(sample_df) = {}
    /\ NamesOf(sample_df) \ NamesOf(drug_df) # {}
    /\ wide_file = NoFile /\ long_file = NoFile

(* ---- C2 ---- *)
MatchingPairs ==
    {p \in (1..Len(drug_df.rows)) \X (1..Len(sample_df.rows)) :
        drug_df.rows[p[1]].pert_iname = sample_df.rows[p[2]].pert_iname}

PairRow(p) ==
    [c \in Range(drug_df.cols) \cup Range(sample_df.cols) |->
        IF c \in Range(drug_df.cols) THEN drug_df.rows[p[1]][c]
        ELSE sample_df.rows[p[2]][c]]

\* C2: right after the join the merged table holds one row for every pair of
\* a drug row and a sample row with the same pert_iname, and nothing else;
\* every drug row and every sample row is part of a merged row.
C2_InnerJoin ==
    pc = "reorder" =>
      LET M == combined_df.rows
      IN /\ Len(M) = Cardinality(MatchingPairs)
         /\ \A k \in 1..Len(M) : \E p \in MatchingPairs : M[k] = PairRow(p)
         /\ \A p \in MatchingPairs :
               Cardinality({k \in 1..Len(M) : M[k] = PairRow(p)})
                 = Cardinality({q \in MatchingPairs : PairRow(q) = PairRow(p)})
         /\ \A i \in 1..Len(drug_df.rows) : \E p \in MatchingPairs : p[1] = i
         /\ \A j \in 1..Len(sample_df.rows) : \E p \in MatchingPairs : p[2] = j

\* a join in which a drug row meets two sample rows
C2_Witness ==
    /\ pc = "reorder"
    /\ Len(sample_df.rows) = 2
    /\ sample_df.rows[1] # sample_df.rows[2]
    /\ Len(combined_df.rows) = 2 * Len(drug_df.rows)

(* ---- C3 ---- *)
\* the number of "|"-separated values of a cell, a missing cell counting one
ValueCount(v) == IF v = NaN THEN 1 ELSE Cardinality(PipePositions(v)) + 1

LongRowsOf(i) ==
    {k \in 1..Len(long_combined_df.rows) :
        long_combined_df.rows[k][split_col_index] = i - 1}

\* C3: a merged row with m moa values and t target values has exactly m * t
\* rows of the long table pointing back at it, one per pair of a moa value and
\* a target value (the placeholder standing for a missing cell).
C3_LongExpansion ==
    /\ pc \in LongBuilt =>
          \A i \in 1..Len(wide_file.rows) :
              /\ Cardinality(LongRowsOf(i))
                   = ValueCount(wide_file.rows[i].moa) * ValueCount(wide_file.rows[i].target)
              /\ LongRowsOf(i) # {}
    /\ pc = "restore" =>
          \A i \in 1..Len(combined_df.rows) :
              LET mv == SplitPipe(combined_df.rows[i].moa)
                  tv == SplitPipe(combined_df.rows[i].target)
              IN \A j \in 1..Len(mv), k \in 1..Len(tv) :
                    Cardinality({n \in LongRowsOf(i) :
                        /\ long_combined_df.rows[n].moa_unique = mv[j]
                        /\ long_combined_df.rows[n].target_unique = tv[k]})
                    = Cardinality({q \in (1..Len(mv)) \X (1..Len(tv)) :
                        mv[q[1]] = mv[j] /\ tv[q[2]] = tv[k]})

\* a row with three moa values and two targets beside a row with both missing
C3_Witness ==
    /\ pc = "done"
    /\ \E i \in 1..Len(wide_file.rows) :
          /\ ValueCount(wide_file.rows[i].moa) = 3
          /\ ValueCount(wide_file.rows[i].target) = 2
          /\ Cardinality({k \in 1..Len(long_file.rows) :
                 long_file.rows[k][split_col_index] = i - 1}) = 6
    /\ \E i \in 1..Len(wide_file.rows) :
          /\ wide_file.rows[i].moa = NaN
          /\ wide_file.rows[i].target = NaN
          /\ Cardinality({k \in 1..Len(long_file.rows) :
                 long_file.rows[k][split_col_index] = i - 1}) = 1

(* ---- C4 ---- *)
PassedThrough(r) == ~StartsWith(r.InChIKey, InChIPrefix)

\* C4 as stated: an InChIKey value that does not start with "InChI" is
\* copied to InChIKey14 unchanged.
C4_PassThroughUnchanged ==
    pc \in WithInChIKey14 =>
      \A r \in Range(combined_df.rows) :
          PassedThrough(r) => r.InChIKey14 = r.InChIKey

\* C4 amended: an InChIKey value that does not start with "InChI" gives its
\* first 14 characters as InChIKey14 (the whole value when it is no longer
\* than that).
C4_PassThroughPrefix ==
    pc \in WithInChIKey14 =>
      \A r \in Range(combined_df.rows) :
          PassedThrough(r) =>
            /\ Len(r.InChIKey14) = Min(KeyLen, Len(r.InChIKey))
            /\ \A n \in 1..Len(r.InChIKey14) : r.InChIKey14[n] = r.InChIKey[n]

\* a 27-character key passed through and cut to its first block
C4_Witness ==
    /\ pc = "write_wide"
    /\ \E r \in Range(combined_df.rows) :
          /\ PassedThrough(r)
          /\ Len(r.InChIKey) = 27
          /\ r.InChIKey14 = SubSeq(r.InChIKey, 1, 14)
          /\ r.InChIKey14 # r.InChIKey

(* ---- C5 ---- *)
\* C5 as stated: InChIKey14 has exactly 14 characters in every merged row.
C5_ExactlyFourteen ==
    pc \in WithInChIKey14 =>
      \A r \in Range(combined_df.rows) : Len(r.InChIKey14) = KeyLen

\* the text that is cut: the library's answer for an InChI string (the text
\* "None" when it gives none), the value itself otherwise
TextBeforeCut(r) ==
    IF PassedThrough(r) THEN r.InChIKey
    ELSE IF inchi_to_key[r.InChIKey] = None THEN <<"N","o","n","e">>
    ELSE inchi_to_key[r.InChIKey]

\* C5 amended: InChIKey14 is a string of at most 14 characters; it has
\* exactly 14 when the converted or passed-through text has 14 or more, and
\* is that whole text when the text is shorter.
C5_AtMostFourteen ==
    pc \in WithInChIKey14 =>
      \A r \in Range(combined_df.rows) :
          /\ IsStr(r.InChIKey14)
          /\ Len(r.InChIKey14) <= KeyLen
          /\ Len(TextBeforeCut(r)) >= KeyLen => Len(r.InChIKey14) = KeyLen
          /\ Len(TextBeforeCut(r)) < KeyLen => r.InChIKey14 = TextBeforeCut(r)

\* a converted key of 14 characters beside a passed-through value of three
C5_Witness ==
    /\ pc = "write_wide"
    /\ \E r \in Range(combined_df.rows) :
          ~PassedThrough(r) /\ Len(r.InChIKey14) = KeyLen
    /\ \E r \in Range(combined_df.rows) :
          PassedThrough(r) /\ Len(r.InChIKey14) = 3

(* ---- C6 ---- *)
\* the merged row, as written to repurposing_info.tsv, a long row points at
WideRowOf(r) == wide_file.rows[r[split_col_index] + 1]

\* C6: in the long table as written no cell of moa, moa_unique, target or
\* target_unique is the placeholder, and a cell of those columns is null
\* exactly when the field was missing in the merged row.
C6_NullsRestored ==
    pc \in LongRestored =>
      \A r \in Range(long_combined_df.rows) :
          /\ \A c \in Range(RestoredColumns) : r[c] # replace_with_na
          /\ r.moa = NaN <=> WideRowOf(r).moa = NaN
          /\ r.moa_unique = NaN <=> WideRowOf(r).moa = NaN
          /\ r.target = NaN <=> WideRowOf(r).target = NaN
          /\ r.target_unique = NaN <=> WideRowOf(r).target = NaN

(* ---- C7 ---- *)
ValuesOf(v) == IF v = NaN THEN {NaN} ELSE Range(SplitPipe(v))

\* C7: every long row points at an existing merged row, agrees with it on
\* every column of the merged table, and carries one of its moa values and
\* one of its target values.
C7_BackReference ==
    pc \in LongRestored =>
      \A r \in Range(long_combined_df.rows) :
          /\ r[split_col_index] \in 0..(Len(wide_file.rows) - 1)
          /\ \A c \in Range(wide_file.cols) : r[c] = WideRowOf(r)[c]
          /\ r.moa_unique \in ValuesOf(WideRowOf(r).moa)
          /\ r.target_unique \in ValuesOf(WideRowOf(r).target)

(* ---- C8 ---- *)
\* C8: the reorder puts broad_id first and InChIKey14 last, keeps the other
\* joined columns in their order, and changes no row and no cell; the table
\* written is the reordered table.
C8_Reorder ==
    [][ /\ (pc = "reorder" /\ pc' = "write_wide") =>
             LET old == combined_df
                 new == combined_df'
                 n   == Len(new.cols)
             IN /\ new.cols[1] = "broad_id"
                /\ new.cols[n] = "InChIKey14"
                /\ SubSeq(new.cols, 2, n - 1) = Without(old.cols, "broad_id")
                /\ Len(new.rows) = Len(old.rows)
                /\ \A i \in 1..Len(old.rows) :
                      /\ DOMAIN new.rows[i] = Range(new.cols)
                      /\ \A c \in Range(old.cols) : new.rows[i][c] = old.rows[i][c]
        /\ (pc = "write_wide" /\ pc' = "fillna") => wide_file' = combined_df
      ]_vars

\* a written table whose broad_id was the last column of the sample file
C8_Witness ==
    /\ pc = "fillna"
    /\ sample_df.cols[3] = "broad_id"
    /\ wide_file.cols = <<"broad_id", "pert_iname", "moa", "target", "InChIKey", "InChIKey14">>
    /\ Len(wide_file.rows) = 2

(* ---- C9 ---- *)
\* C9: the placeholder is in combined_df only once repurposing_info.tsv is
\* written, so the written wide rows carry the drug table's own moa and
\* target, missing cells included; repurposing_info_long.tsv exists only
\* after the wide file and holds a table whose placeholders were put back.
C9_WriteOrder ==
    /\ pc \in PlaceholderIn => wide_file # NoFile
    /\ wide_file # NoFile =>
          \A w \in Range(wide_file.rows) :
              \E d \in Range(drug_df.rows) :
                  /\ d.pert_iname = w.pert_iname
                  /\ d.moa = w.moa
                  /\ d.target = w.target
    /\ long_file # NoFile =>
          /\ wide_file # NoFile
          /\ pc = "done"
          /\ long_file = Restore(long_file)
    /\ pc \in (BeforeMerge \cup Stopped \cup {"merge", "reorder", "AttributeError"}) =>
          wide_file = NoFile /\ long_file = NoFile

\* both files written, the wide one with a missing target
C9_Witness ==
    /\ pc = "done"
    /\ long_file # NoFile
    /\ \E w \in Range(wide_file.rows) : w.moa # NaN /\ w.target = NaN

(* ---- C10 ---- *)
RECURSIVE JoinPipe(_)
JoinPipe(segs) ==
    IF Len(segs) = 1 THEN segs[1]
    ELSE segs[1] \o <<"|">> \o JoinPipe(Tail(segs))

\* the entries of a split frame that point at merged row i, in frame order
EntriesOf(split, i) ==
    Concat([k \in 1..Len(split.rows) |->
              IF split.rows[k][split_col_index] = i - 1 THEN <<split.rows[k]>> ELSE <<>>])

RoundTrips(split, name, cell, i) ==
    LET e == EntriesOf(split, i)
    IN /\ Len(e) >= 1
       /\ \A k \in 1..Len(e) : e[k]["_"] = k - 1
       /\ JoinPipe([k \in 1..Len(e) |-> e[k][name]]) = cell

\* C10: the moa_unique entries of a merged row, in position order and joined
\* with "|", are that row's moa string, and likewise for target.
C10_SplitRoundTrip ==
    pc \in SplitsDone =>
      \A i \in 1..Len(combined_df.rows) :
          /\ RoundTrips(moa_split_df, "moa_unique", combined_df.rows[i].moa, i)
          /\ RoundTrips(target_split_df, "target_unique", combined_df.rows[i].target, i)

\* a row with an empty segment beside a narrower row
C10_Witness ==
    /\ pc = "merge_long"
    /\ \E i, j \in 1..Len(combined_df.rows) :
          /\ combined_df.rows[i].moa = <<"a","|","|","b">>
          /\ Len(EntriesOf(moa_split_df, i)) = 3
          /\ EntriesOf(moa_split_df, i)[2].moa_unique = <<>>
          /\ combined_df.rows[j].moa = replace_with_na
          /\ Len(EntriesOf(moa_split_df, j)) = 1

====
